---- MODULE Spec2Model ----
(***************************************************************************)
(* The research pipeline of apps/worker/tasks.py: one Job, its Source and  *)
(* Document rows, the Celery task queue, and the task handlers             *)
(* run_discovery, fetch_source, normalize, index, analyze_timeline and     *)
(* finalize_job.  A handler is cut into steps at its database sessions     *)
(* (libs/common/db.py get_session commits when the `with` block exits) and *)
(* at its task dispatches; handlers of different tasks interleave between  *)
(* steps.                                                                  *)
(***************************************************************************)
EXTENDS Integers, Sequences, FiniteSets, Bags, TLC

\* ------------------------------------------------------------------ bounds

\* Longest list of discovery items the providers return in the pipeline runs.
MaxItems == 2
\* Longest list of discovery items in the runs that exercise deduplication.
MaxDedupItems == 3
\* Deliveries of a task message beyond the first, in the at-least-once runs.
MaxRedeliver == 1
\* Longest candidate list handed to analyze_timeline's de-duplication.
MaxEvents == 3
\* Longest citation list of one synthesized event.
MaxCitations == 2

\* URLs the providers return in the pipeline runs.
Urls == {"A", "B"}
\* URLs in the deduplication runs: "a" and "A" differ only by case.
DedupUrls == {"A", "a", "B"}
\* Provider names (DiscoveryItem.source), the metadata an item carries.
Providers == {"searxng", "sitemap"}

\* ------------------------------------------------------------------- state

VARIABLES
    jobStatus,     \* Job.status of the one job
    sources,       \* the sources table: a sequence of rows, index = Source.id
    docs,          \* the documents table: a sequence of rows, index = Document.id
    queue,         \* the broker: a bag of task messages not yet delivered
    running,       \* a bag of handler executions in progress
    items,         \* run_discovery's local list `items` while the handler runs
    dispatched,    \* analyze_timeline.delay calls so far, by caller
    eventBatches,  \* Event batches committed by analyze_timeline
    redelivered,   \* the bag of task messages delivered again after a delivery
    failures,      \* task executions ended by an exception nothing caught
    calls,         \* what each provider call of the running discovery pass answered
    probe          \* a helper function's arguments and, once applied, its result

vars == <<jobStatus, sources, docs, queue, running, items, dispatched,
          eventBatches, redelivered, failures, calls, probe>>

JobStatuses == {"queued", "discovering", "fetching", "analyzing", "complete",
                "analysis_failed"}
SourceStatuses == {"queued", "fetched", "fetch_failed", "blocked_by_robots"}
DocStatuses == {"fetched", "normalizing", "normalized", "normalize_failed",
                "indexed", "index_failed"}

\* The status list of _pending_docs_count / _maybe_trigger_analysis / finalize_job.
TerminalDocStatuses == {"indexed", "index_failed", "normalize_failed"}
\* The status tuple of _maybe_trigger_analysis and finalize_job.
GuardStatuses == {"analyzing", "complete", "analysis_failed"}

\* ------------------------------------------------------------ task messages

Task(type, id) == [type |-> type, id |-> id]
\* A handler execution: the task it runs, where it stands, (fetch_source) the id
\* of the Document it flushed, and (normalize, index) whether the Document was
\* already in a terminal status when the handler started.
Exec(type, id, pc) ==
    [type |-> type, id |-> id, pc |-> pc, doc |-> 0, redo |-> FALSE]

Put(bag, e) == bag (+) SetToBag({e})
Del(bag, e) == bag (-) SetToBag({e})

RECURSIVE PutAll(_, _)
PutAll(bag, seq) ==
    IF seq = <<>> THEN bag ELSE PutAll(Put(bag, Head(seq)), Tail(seq))

\* How a specification runs the handlers: seq = task bodies one at a time,
\* alo = at-least-once delivery (a message may be delivered again).
Concurrent == [seq |-> FALSE, alo |-> FALSE]
Sequential == [seq |-> TRUE, alo |-> FALSE]
AtLeastOnce == [seq |-> TRUE, alo |-> TRUE]

\* A worker takes message t: the message leaves the broker, or (at-least-once)
\* stays to be delivered again.
Deliver(t, o, keep) ==
    /\ BagIn(t, queue)
    /\ o.seq => running = EmptyBag
    /\ keep => o.alo /\ BagCardinality(redelivered) < MaxRedeliver
    /\ redelivered' = IF keep THEN Put(redelivered, t) ELSE redelivered

AfterDelivery(t, keep) == IF keep THEN queue ELSE Del(queue, t)

\* ---------------------------------------------------------------- database

\* db.get(Source, id) / db.get(Document, id): a row another session has flushed
\* but not committed is not seen.
SourceVisible(sid) == sid \in DOMAIN sources /\ sources[sid].visible
DocVisible(did) == did \in DOMAIN docs /\ docs[did].visible

\* func.count(Document.id) filtered by job_id.
TotalDocs == Cardinality({d \in DOMAIN docs : docs[d].visible})

\* func.count(Document.id) with status notin the terminal list.
PendingDocs ==
    Cardinality({d \in DOMAIN docs :
                    docs[d].visible /\ docs[d].status \notin TerminalDocStatuses})

\* _maybe_trigger_analysis without its `if total == 0: return`.
MaybeTriggerAnalysis_NoTotalCheck ==
    IF PendingDocs # 0 THEN FALSE
    ELSE IF jobStatus \in GuardStatuses THEN FALSE
    ELSE TRUE

\* _maybe_trigger_analysis, the session: TRUE when it falls through to the
\* dispatch, FALSE on each early return.
MaybeTriggerAnalysis ==
    IF TotalDocs = 0 THEN FALSE
    ELSE IF PendingDocs # 0 THEN FALSE
    ELSE IF jobStatus \in GuardStatuses THEN FALSE
    ELSE TRUE

\* finalize_job re-enqueueing itself where it should dispatch.
FinalizeDecision_NeverDispatch ==
    IF jobStatus \in GuardStatuses THEN "skip" ELSE "reschedule"

\* finalize_job, the session and the branches after it.
FinalizeDecision ==
    IF jobStatus \in GuardStatuses THEN "skip"
    ELSE IF TotalDocs = 0 THEN "reschedule"
    ELSE IF PendingDocs = 0 THEN "dispatch"
    ELSE "reschedule"

\* ---------------------------------------------------------------- discovery

ItemLists(urls, providers, n) ==
    UNION {[1..k -> [url : urls, source : providers]] : k \in 0..n}

\* run_discovery's loop over items with the `seen` set.
RECURSIVE DedupFrom(_, _, _)
DedupFrom(its, i, seen) ==
    IF i > Len(its) THEN <<>>
    ELSE IF its[i].url \in seen THEN DedupFrom(its, i + 1, seen)
    ELSE <<its[i]>> \o DedupFrom(its, i + 1, seen \cup {its[i].url})

\* A dedup that keeps the last item seen with a URL instead of the first.
Dedup_KeepLast(its) ==
    LET keep == {i \in DOMAIN its :
                    \A j \in DOMAIN its : j > i => its[j].url # its[i].url}
        F[i \in 0..Len(its)] ==
            IF i = 0 THEN <<>>
            ELSE IF i \in keep THEN Append(F[i - 1], its[i]) ELSE F[i - 1]
    IN F[Len(its)]

Dedup(its) == DedupFrom(its, 1, {})

\* The id start_research gave the job; every task of the job is sent with it.
JobId == 0

SourceRow(it) ==
    [job_id |-> JobId, url |-> it.url, source |-> it.source, status |-> "queued",
     visible |-> FALSE]

RECURSIVE SourceRows(_)
SourceRows(its) ==
    IF its = <<>> THEN <<>> ELSE <<SourceRow(Head(its))>> \o SourceRows(Tail(its))

\* The order in which run_discovery calls the providers.
ProviderOrder == <<"searxng", "sitemap", "wordpress">>

\* What one provider call may answer: discover raises, or returns a list of
\* items that carry the provider's name.
Answer(p, urls, n) ==
    {[raised |-> TRUE, items |-> <<>>]} \cup
    {[raised |-> FALSE, items |-> l] : l \in ItemLists(urls, {p}, n)}

\* run_discovery's `items` after the provider blocks, were a raise to end the
\* collection instead of being caught per provider.
RECURSIVE CollectedFrom_StopAtRaise(_, _)
CollectedFrom_StopAtRaise(a, i) ==
    IF i > Len(ProviderOrder) THEN <<>>
    ELSE LET q == ProviderOrder[i] IN
         IF q \notin DOMAIN a THEN CollectedFrom_StopAtRaise(a, i + 1)
         ELSE IF a[q].raised THEN <<>>
         ELSE a[q].items \o CollectedFrom_StopAtRaise(a, i + 1)

\* run_discovery's `items` after the provider blocks: each provider that is
\* called (not skipped) extends the list unless its discover raised.
RECURSIVE CollectedFrom(_, _)
CollectedFrom(a, i) ==
    IF i > Len(ProviderOrder) THEN <<>>
    ELSE LET q == ProviderOrder[i] IN
         IF q \notin DOMAIN a THEN CollectedFrom(a, i + 1)
         ELSE IF a[q].raised THEN CollectedFrom(a, i + 1)
         ELSE a[q].items \o CollectedFrom(a, i + 1)

Collected(a) == CollectedFrom(a, 1)

\* The answers of the called providers, at most n items returned in all.
Answers(providers, urls, n) ==
    {a \in [providers -> UNION {Answer(q, urls, n) : q \in providers}] :
        /\ \A q \in providers : a[q] \in Answer(q, urls, n)
        /\ Len(Collected(a)) <= n}

\* No provider has been called / no helper function is under test.
NoCalls == [q \in {} |-> <<>>]
NoProbe == [fn |-> "none"]

\* Two fetch_source messages sent for every Source.
FetchTasks_Twice(first, n) ==
    [i \in 1..(2 * n) |-> Task("fetch_source", first + ((i - 1) \div 2))]

FetchTasks(first, n) == [i \in 1..n |-> Task("fetch_source", first + i - 1)]

\* The state after start_research: the Job row committed as queued and
\* run_discovery sent.
PipelineStart ==
    /\ jobStatus = "queued"
    /\ sources = <<>>
    /\ docs = <<>>
    /\ queue = SetToBag({Task("run_discovery", 0)})
    /\ running = EmptyBag
    /\ items = <<>>
    /\ dispatched = [fanin |-> 0, finalize |-> 0]
    /\ eventBatches = 0
    /\ redelivered = EmptyBag
    /\ failures = 0
    /\ calls = NoCalls

Init == PipelineStart /\ probe = NoProbe

\* run_discovery, entry: _set_status(job_id, "discovering").
RunDiscovery_Begin(o) ==
    \E keep \in BOOLEAN :
        LET t == Task("run_discovery", 0) IN
        /\ Deliver(t, o, keep)
        /\ jobStatus' = "discovering"
        /\ queue' = AfterDelivery(t, keep)
        /\ running' = Put(running, Exec("run_discovery", 0, "collect"))
        /\ UNCHANGED <<sources, docs, items, dispatched, eventBatches,
                       failures, calls, probe>>

\* run_discovery: the providers are called, the items deduplicated, and inside
\* one session every unique item is added as a Source, flushed, and its
\* fetch_source task sent; the session has not committed yet.
RunDiscovery_Collect(answers) ==
    LET e == Exec("run_discovery", 0, "collect") IN
    /\ BagIn(e, running)
    /\ \E a \in answers :
          LET its == Collected(a)
              unique == Dedup(its)
          IN
          /\ calls' = a
          /\ items' = its
          /\ sources' = sources \o SourceRows(unique)
          /\ queue' = PutAll(queue, FetchTasks(Len(sources) + 1, Len(unique)))
    /\ running' = Put(Del(running, e), [e EXCEPT !.pc = "commit"])
    /\ UNCHANGED <<jobStatus, docs, dispatched, eventBatches, redelivered,
                   failures, probe>>

\* run_discovery: the session commits, the Source rows become visible.
RunDiscovery_Commit ==
    LET e == Exec("run_discovery", 0, "commit") IN
    /\ BagIn(e, running)
    /\ sources' = [s \in DOMAIN sources |-> [sources[s] EXCEPT !.visible = TRUE]]
    /\ running' = Put(Del(running, e), [e EXCEPT !.pc = "set_fetching"])
    /\ UNCHANGED <<jobStatus, docs, queue, items, dispatched, eventBatches,
                   redelivered, failures, calls, probe>>

\* run_discovery: _set_status(job_id, "fetching").
RunDiscovery_SetFetching ==
    LET e == Exec("run_discovery", 0, "set_fetching") IN
    /\ BagIn(e, running)
    /\ jobStatus' = "fetching"
    /\ running' = Put(Del(running, e), [e EXCEPT !.pc = "schedule"])
    /\ UNCHANGED <<sources, docs, queue, items, dispatched, eventBatches,
                   redelivered, failures, calls, probe>>

\* run_discovery: finalize_job.apply_async((job_id,), countdown=45), and the
\* handler returns.
RunDiscovery_Schedule ==
    LET e == Exec("run_discovery", 0, "schedule") IN
    /\ BagIn(e, running)
    /\ queue' = Put(queue, Task("finalize_job", 0))
    /\ running' = Del(running, e)
    /\ items' = <<>>
    /\ calls' = NoCalls
    /\ UNCHANGED <<jobStatus, sources, docs, dispatched, eventBatches,
                   redelivered, failures, probe>>

\* -------------------------------------------------------------------- fetch

SetSourceStatus(sid, st) ==
    IF SourceVisible(sid) THEN [sources EXCEPT ![sid].status = st] ELSE sources

DocRow(sid) ==
    [job_id |-> JobId, source_id |-> sid, status |-> "fetched", visible |-> FALSE,
     text_path |-> FALSE]

\* fetch_source up to the dispatch of normalize.  outcome: what robots_allows and
\* requests.get answer.  "blocked": the session sets blocked_by_robots `if s`.
\* "failed": any exception in the try block, the except session sets
\* fetch_failed `if s`.  "ok": the session reads the Source and, `if s`, adds the
\* Document, flushes and sends normalize before it commits; when the Source is
\* not found the handler returns with nothing done.
FetchSource_Begin(o) ==
    \E sid \in DOMAIN sources, keep \in BOOLEAN,
       outcome \in {"blocked", "failed", "ok"} :
        LET t == Task("fetch_source", sid)
            q == AfterDelivery(t, keep)
        IN
        /\ Deliver(t, o, keep)
        /\ CASE outcome = "blocked" ->
                /\ sources' = SetSourceStatus(sid, "blocked_by_robots")
                /\ running' = Put(running, Exec("fetch_source", sid, "fanin"))
                /\ queue' = q
                /\ docs' = docs
             [] outcome = "failed" ->
                /\ sources' = SetSourceStatus(sid, "fetch_failed")
                /\ running' = Put(running, Exec("fetch_source", sid, "fanin"))
                /\ queue' = q
                /\ docs' = docs
             [] outcome = "ok" ->
                IF SourceVisible(sid)
                THEN /\ docs' = Append(docs, DocRow(sid))
                     /\ queue' = Put(q, Task("normalize", Len(docs) + 1))
                     /\ running' = Put(running,
                            [Exec("fetch_source", sid, "commit")
                                EXCEPT !.doc = Len(docs) + 1])
                     /\ sources' = sources
                ELSE /\ queue' = q
                     /\ UNCHANGED <<sources, docs, running>>
        /\ UNCHANGED <<jobStatus, items, dispatched, eventBatches, failures,
                       calls, probe>>

\* fetch_source committing the Document without marking the Source fetched.
FetchSource_Commit_LeavesQueued ==
    \E e \in BagToSet(running) :
        /\ e.type = "fetch_source" /\ e.pc = "commit"
        /\ docs' = [docs EXCEPT ![e.doc].visible = TRUE]
        /\ running' = Del(running, e)
        /\ UNCHANGED <<jobStatus, sources, queue, items, dispatched,
                       eventBatches, redelivered, failures, calls, probe>>

\* fetch_source: the session commits: the Document becomes visible and the
\* Source is fetched.
FetchSource_Commit ==
    \E e \in BagToSet(running) :
        /\ e.type = "fetch_source" /\ e.pc = "commit"
        /\ docs' = [docs EXCEPT ![e.doc].visible = TRUE]
        /\ sources' = [sources EXCEPT ![e.id].status = "fetched"]
        /\ running' = Del(running, e)
        /\ UNCHANGED <<jobStatus, queue, items, dispatched, eventBatches,
                       redelivered, failures, calls, probe>>

\* ------------------------------------------------------------------ fan-in

\* A fan-in check that marks the job analyzing in the session that passes.
FanIn_Check_MarksAnalyzing ==
    \E e \in BagToSet(running) :
        /\ e.pc = "fanin"
        /\ running' = IF MaybeTriggerAnalysis
                          THEN Put(Del(running, e), [e EXCEPT !.pc = "fanin_dispatch"])
                          ELSE Del(running, e)
        /\ jobStatus' = IF MaybeTriggerAnalysis THEN "analyzing" ELSE jobStatus
        /\ UNCHANGED <<sources, docs, queue, items, dispatched, eventBatches,
                       redelivered, failures, calls, probe>>

\* _maybe_trigger_analysis, the session, called by a handler on its way out.
FanIn_Check ==
    \E e \in BagToSet(running) :
        /\ e.pc = "fanin"
        /\ running' = IF MaybeTriggerAnalysis
                          THEN Put(Del(running, e), [e EXCEPT !.pc = "fanin_dispatch"])
                          ELSE Del(running, e)
        /\ UNCHANGED <<jobStatus, sources, docs, queue, items, dispatched,
                       eventBatches, redelivered, failures, calls, probe>>

\* _maybe_trigger_analysis, after the session: analyze_timeline.delay(job_id).
FanIn_Dispatch ==
    \E e \in BagToSet(running) :
        /\ e.pc = "fanin_dispatch"
        /\ queue' = Put(queue, Task("analyze_timeline", 0))
        /\ dispatched' = [dispatched EXCEPT !.fanin = @ + 1]
        /\ running' = Del(running, e)
        /\ UNCHANGED <<jobStatus, sources, docs, items, eventBatches,
                       redelivered, failures, calls, probe>>

\* The worker dies between the stage's last write and the fan-in check: the
\* check never runs.
FanIn_Lost ==
    \E e \in BagToSet(running) :
        /\ e.pc = "fanin"
        /\ running' = Del(running, e)
        /\ UNCHANGED <<jobStatus, sources, docs, queue, items, dispatched,
                       eventBatches, redelivered, failures, calls, probe>>

\* --------------------------------------------------------------- normalize

\* normalize, first session: returns when the Document is not found, else sets
\* it normalizing whatever its status was.  (The `if not url` exit needs a
\* Document whose Source is missing or has an empty url; fetch_source creates a
\* Document only for a Source it found and whose url it fetched.)
Normalize_Begin(o) ==
    \E did \in DOMAIN docs, keep \in BOOLEAN :
        LET t == Task("normalize", did) IN
        /\ Deliver(t, o, keep)
        /\ queue' = AfterDelivery(t, keep)
        /\ IF DocVisible(did)
           THEN /\ docs' = [docs EXCEPT ![did].status = "normalizing"]
                /\ running' = Put(running,
                       [Exec("normalize", did, "work")
                           EXCEPT !.redo = docs[did].status \in TerminalDocStatuses])
           ELSE UNCHANGED <<docs, running>>
        /\ UNCHANGED <<jobStatus, sources, items, dispatched, eventBatches,
                       failures, calls, probe>>

\* normalize sending index whether or not the extraction succeeded.
Normalize_Work_AlwaysIndex ==
    \E e \in BagToSet(running), ok \in BOOLEAN :
        /\ e.type = "normalize" /\ e.pc = "work"
        /\ docs' = IF ok
                       THEN [docs EXCEPT ![e.id].status = "normalized",
                                         ![e.id].text_path = TRUE]
                       ELSE [docs EXCEPT ![e.id].status = "normalize_failed"]
        /\ running' = Put(Del(running, e), [e EXCEPT !.pc = "dispatch_index"])
        /\ UNCHANGED <<jobStatus, sources, queue, items, dispatched,
                       eventBatches, redelivered, failures, calls, probe>>

\* normalize: the network work, then the second session.
Normalize_Work ==
    \E e \in BagToSet(running), ok \in BOOLEAN :
        /\ e.type = "normalize" /\ e.pc = "work"
        /\ docs' = IF ok
                       THEN [docs EXCEPT ![e.id].status = "normalized",
                                         ![e.id].text_path = TRUE]
                       ELSE [docs EXCEPT ![e.id].status = "normalize_failed"]
        /\ running' = Put(Del(running, e),
                          [e EXCEPT !.pc = IF ok THEN "dispatch_index" ELSE "fanin"])
        /\ UNCHANGED <<jobStatus, sources, queue, items, dispatched,
                       eventBatches, redelivered, failures, calls, probe>>

\* normalize, the second session after a successful extraction: put_bytes
\* (the blob store) raises inside the session; the session rolls back, nothing
\* catches the exception, the task ends with the Document still normalizing.
Normalize_Raise ==
    \E e \in BagToSet(running) :
        /\ e.type = "normalize" /\ e.pc = "work"
        /\ running' = Del(running, e)
        /\ failures' = failures + 1
        /\ UNCHANGED <<jobStatus, sources, docs, queue, items, dispatched,
                       eventBatches, redelivered, calls, probe>>

\* normalize: index.delay(job_id, document_id).
Normalize_DispatchIndex ==
    \E e \in BagToSet(running) :
        /\ e.type = "normalize" /\ e.pc = "dispatch_index"
        /\ queue' = Put(queue, Task("index", e.id))
        /\ running' = Del(running, e)
        /\ UNCHANGED <<jobStatus, sources, docs, items, dispatched,
                       eventBatches, redelivered, failures, calls, probe>>

\* ------------------------------------------------------------------- index

\* index, first session: returns when the Document is not found.
Index_Begin(o) ==
    \E did \in DOMAIN docs, keep \in BOOLEAN :
        LET t == Task("index", did) IN
        /\ Deliver(t, o, keep)
        /\ queue' = AfterDelivery(t, keep)
        /\ running' = IF DocVisible(did)
                          THEN Put(running,
                                [Exec("index", did, "work")
                                    EXCEPT !.redo =
                                        docs[did].status \in TerminalDocStatuses])
                          ELSE running
        /\ UNCHANGED <<jobStatus, sources, docs, items, dispatched,
                       eventBatches, failures, calls, probe>>

\* index: the re-fetch and the length gate decide the status the last session
\* writes: indexed when ok and the text has 200 characters, else index_failed.
Index_Work ==
    \E e \in BagToSet(running), st \in {"indexed", "index_failed"} :
        /\ e.type = "index" /\ e.pc = "work"
        /\ docs' = [docs EXCEPT ![e.id].status = st]
        /\ running' = Put(Del(running, e), [e EXCEPT !.pc = "fanin"])
        /\ UNCHANGED <<jobStatus, sources, queue, items, dispatched,
                       eventBatches, redelivered, failures, calls, probe>>

\* index: embed or upsert_chunk raises; nothing catches it, the task ends.
Index_Raise ==
    \E e \in BagToSet(running) :
        /\ e.type = "index" /\ e.pc = "work"
        /\ running' = Del(running, e)
        /\ failures' = failures + 1
        /\ UNCHANGED <<jobStatus, sources, docs, queue, items, dispatched,
                       eventBatches, redelivered, calls, probe>>

\* ----------------------------------------------------------------- analyze

\* analyze_timeline, entry: _set_status(job_id, "analyzing").
AnalyzeTimeline_Begin(o) ==
    \E keep \in BOOLEAN :
        LET t == Task("analyze_timeline", 0) IN
        /\ Deliver(t, o, keep)
        /\ queue' = AfterDelivery(t, keep)
        /\ jobStatus' = "analyzing"
        /\ running' = Put(running, Exec("analyze_timeline", 0, "synth"))
        /\ UNCHANGED <<sources, docs, items, dispatched, eventBatches,
                       failures, calls, probe>>

\* analyze_timeline keeping the Events added before the exception.
AnalyzeTimeline_Synth_PartialEvents ==
    \E e \in BagToSet(running), ok \in BOOLEAN :
        /\ e.type = "analyze_timeline" /\ e.pc = "synth"
        /\ eventBatches' = eventBatches + 1
        /\ running' = Put(Del(running, e),
                          [e EXCEPT !.pc = IF ok THEN "complete" ELSE "failed"])
        /\ UNCHANGED <<jobStatus, sources, docs, queue, items, dispatched,
                       redelivered, failures, calls, probe>>

\* analyze_timeline, the try block: the events are committed in one session, or
\* something raises and nothing is committed.
AnalyzeTimeline_Synth ==
    \E e \in BagToSet(running), ok \in BOOLEAN :
        /\ e.type = "analyze_timeline" /\ e.pc = "synth"
        /\ eventBatches' = IF ok THEN eventBatches + 1 ELSE eventBatches
        /\ running' = Put(Del(running, e),
                          [e EXCEPT !.pc = IF ok THEN "complete" ELSE "failed"])
        /\ UNCHANGED <<jobStatus, sources, docs, queue, items, dispatched,
                       redelivered, failures, calls, probe>>

\* analyze_timeline: _set_status(job_id, "complete").
AnalyzeTimeline_Complete ==
    \E e \in BagToSet(running) :
        /\ e.type = "analyze_timeline" /\ e.pc = "complete"
        /\ jobStatus' = "complete"
        /\ running' = Del(running, e)
        /\ UNCHANGED <<sources, docs, queue, items, dispatched, eventBatches,
                       redelivered, failures, calls, probe>>

\* analyze_timeline, the except block: _set_status(job_id, "analysis_failed").
AnalyzeTimeline_Failed ==
    \E e \in BagToSet(running) :
        /\ e.type = "analyze_timeline" /\ e.pc = "failed"
        /\ jobStatus' = "analysis_failed"
        /\ running' = Del(running, e)
        /\ UNCHANGED <<sources, docs, queue, items, dispatched, eventBatches,
                       redelivered, failures, calls, probe>>

\* ---------------------------------------------------------------- finalize

\* finalize_job, the session.
FinalizeJob_Begin(o) ==
    \E keep \in BOOLEAN :
        LET t == Task("finalize_job", 0) IN
        /\ Deliver(t, o, keep)
        /\ queue' = AfterDelivery(t, keep)
        /\ running' = IF FinalizeDecision = "skip"
                          THEN running
                          ELSE Put(running, Exec("finalize_job", 0, FinalizeDecision))
        /\ UNCHANGED <<jobStatus, sources, docs, items, dispatched,
                       eventBatches, failures, calls, probe>>

\* finalize_job dispatching the synthesis as well when it re-enqueues itself.
FinalizeJob_Reschedule_AlsoDispatches ==
    LET e == Exec("finalize_job", 0, "reschedule") IN
    /\ BagIn(e, running)
    /\ queue' = Put(Put(queue, Task("finalize_job", 0)), Task("analyze_timeline", 0))
    /\ running' = Del(running, e)
    /\ UNCHANGED <<jobStatus, sources, docs, items, dispatched, eventBatches,
                   redelivered, failures, calls, probe>>

\* finalize_job: finalize_job.apply_async((job_id,), countdown=20).
FinalizeJob_Reschedule ==
    LET e == Exec("finalize_job", 0, "reschedule") IN
    /\ BagIn(e, running)
    /\ queue' = Put(queue, Task("finalize_job", 0))
    /\ running' = Del(running, e)
    /\ UNCHANGED <<jobStatus, sources, docs, items, dispatched, eventBatches,
                   redelivered, failures, calls, probe>>

\* finalize_job marking the job analyzing when it dispatches.
FinalizeJob_Dispatch_MarksAnalyzing ==
    LET e == Exec("finalize_job", 0, "dispatch") IN
    /\ BagIn(e, running)
    /\ queue' = Put(queue, Task("analyze_timeline", 0))
    /\ dispatched' = [dispatched EXCEPT !.finalize = @ + 1]
    /\ running' = Del(running, e)
    /\ jobStatus' = "analyzing"
    /\ UNCHANGED <<sources, docs, items, eventBatches, redelivered, failures,
                   calls, probe>>

\* finalize_job re-enqueueing itself after it dispatched the synthesis.
FinalizeJob_Dispatch_Reschedules ==
    LET e == Exec("finalize_job", 0, "dispatch") IN
    /\ BagIn(e, running)
    /\ queue' = Put(Put(queue, Task("analyze_timeline", 0)), Task("finalize_job", 0))
    /\ dispatched' = [dispatched EXCEPT !.finalize = @ + 1]
    /\ running' = Del(running, e)
    /\ UNCHANGED <<jobStatus, sources, docs, items, eventBatches, redelivered,
                   failures, calls, probe>>

\* finalize_job: analyze_timeline.delay(job_id).
FinalizeJob_Dispatch ==
    LET e == Exec("finalize_job", 0, "dispatch") IN
    /\ BagIn(e, running)
    /\ queue' = Put(queue, Task("analyze_timeline", 0))
    /\ dispatched' = [dispatched EXCEPT !.finalize = @ + 1]
    /\ running' = Del(running, e)
    /\ UNCHANGED <<jobStatus, sources, docs, items, eventBatches, redelivered,
                   failures, calls, probe>>

\* -------------------------------------------------------- helper functions

\* index's content gate: the number of characters the stripped text must have.
MinChars == 200

\* A text as index sees it: whitespace, a body that starts and ends with a
\* non-blank character (or is empty), whitespace.
BodyLengths == {0, 150, 199, 200, 250}
Texts == [lead : 0..1, body : BodyLengths, trail : 0..1]

\* len(text) and text.strip().
TextLen(t) == t.lead + t.body + t.trail
StripText(t) == [lead |-> 0, body |-> t.body, trail |-> 0]

\* The gate applied to the text as fetched, not stripped.
IndexGate_Untrimmed(ok, text) ==
    ok /\ TextLen(text) > 0 /\ TextLen(text) >= MinChars

\* index: `ok and text and len(text.strip()) >= 200`, the condition of the
\* embedding branch and of the status written.
IndexGate(ok, text) ==
    ok /\ TextLen(text) > 0 /\ TextLen(StripText(text)) >= MinChars

\* What index does with the text: whether it embeds, and the status it writes.
IndexOutcome(in) ==
    [embedded |-> IndexGate(in.ok, in.text),
     status |-> IF IndexGate(in.ok, in.text) THEN "indexed" ELSE "index_failed"]

\* Strings of the synthesized events, as sequences of characters.
Blank == " "
LowerChar(c) == IF c = "P" THEN "p" ELSE IF c = "N" THEN "n" ELSE c

\* str.lower() and str.strip().
Lower(str) == [k \in DOMAIN str |-> LowerChar(str[k])]

RECURSIVE LStrip(_)
LStrip(str) ==
    IF str # <<>> /\ Head(str) = Blank THEN LStrip(Tail(str)) ELSE str

RECURSIVE RStrip(_)
RStrip(str) ==
    IF str # <<>> /\ str[Len(str)] = Blank
        THEN RStrip(SubSeq(str, 1, Len(str) - 1))
        ELSE str

Strip(str) == RStrip(LStrip(str))

\* The candidate events make_timeline returns: date and event are stripped
\* strings, the event text possibly differing by case only.
EventDates == {<<>>, <<"1">>}
EventTexts == {<<>>, <<"P", "n">>, <<"p", "n">>, <<"n">>}
Candidates ==
    UNION {[1..k -> [date : EventDates, event : EventTexts]] : k \in 0..MaxEvents}

\* A de-duplication key that keeps the case of the event text.
EventKey_CaseSensitive(e) == <<Strip(e.date), Strip(e.event)>>

\* analyze_timeline: key = (date, event.lower()) of the stripped strings.
EventKey(e) == <<Strip(e.date), Lower(Strip(e.event))>>

\* analyze_timeline's loop over tl with the `seen` set: the events persisted.
RECURSIVE UniqFrom(_, _, _)
UniqFrom(tl, i, seen) ==
    IF i > Len(tl) THEN <<>>
    ELSE IF Strip(tl[i].event) = <<>> THEN UniqFrom(tl, i + 1, seen)
    ELSE IF EventKey(tl[i]) \in seen THEN UniqFrom(tl, i + 1, seen)
    ELSE <<tl[i]>> \o UniqFrom(tl, i + 1, seen \cup {EventKey(tl[i])})

Uniq(tl) == UniqFrom(tl, 1, {})

\* Python values in a citation entry: None for a missing key, strings.
None == "<None>"
Truthy(v) == v # None /\ v # ""
\* `v or w`.
Or(v, w) == IF Truthy(v) THEN v ELSE w
\* dict.get(key).
Get(d, key) == IF key \in DOMAIN d THEN d[key] ELSE None

\* A citation entry as the chat model may write it: a bare string, an object
\* with any of the keys url, source, label, or something else (a number).
CitationDicts ==
    UNION {[keys -> {"", "u", "v", "L"}] : keys \in SUBSET {"url", "source", "label"}}
CitationEntries ==
    {[kind |-> "str", s |-> v] : v \in {"", "u"}} \cup
    {[kind |-> "dict", d |-> d] :
        d \in {c \in CitationDicts :
                  /\ "url" \in DOMAIN c => c["url"] \in {"", "u"}
                  /\ "source" \in DOMAIN c => c["source"] \in {"", "v"}
                  /\ "label" \in DOMAIN c => c["label"] \in {"", "L"}}} \cup
    {[kind |-> "other"]}
CitationLists == UNION {[1..k -> CitationEntries] : k \in 0..MaxCitations}

\* make_timeline's loop over cits: the normalized citations.
RECURSIVE NormCitations(_)
NormCitations(cits) ==
    IF cits = <<>> THEN <<>>
    ELSE LET c == Head(cits)
             url == IF c.kind = "dict"
                        THEN Or(Or(Get(c.d, "url"), Get(c.d, "source")), "")
                        ELSE IF c.kind = "str" THEN c.s ELSE ""
             label == IF c.kind = "dict" THEN Or(Get(c.d, "label"), "source")
                      ELSE "source"
         IN (IF c.kind \in {"dict", "str"} /\ Truthy(url)
                 THEN <<[url |-> url, label |-> label]>>
                 ELSE <<>>) \o NormCitations(Tail(cits))

\* analyze_timeline's retry: below this many events make_timeline is called
\* a second time.
RetryBelow == 8

\* What a call of make_timeline returns: which call it was, and how many
\* events it returned.
TimelineLengths == {0, 3, 7, 8, 9}
Timelines == [call : {1, 2}, len : TimelineLengths]

\* The second result kept only when it is longer than the first.
TimelinePasses_KeepLonger(first, second) ==
    IF first.len < RetryBelow
        THEN [calls |-> 2, tl |-> IF second.len > first.len THEN second ELSE first]
        ELSE [calls |-> 1, tl |-> first]

\* analyze_timeline: tl = make_timeline(); if len(tl) < 8: tl = make_timeline().
TimelinePasses(first, second) ==
    IF first.len < RetryBelow
        THEN [calls |-> 2, tl |-> second]
        ELSE [calls |-> 1, tl |-> first]

\* The arguments a helper function may be applied to.
ProbeInputs ==
    {[fn |-> "index_gate", in |-> [ok |-> ok, text |-> t]] :
        ok \in BOOLEAN, t \in Texts} \cup
    {[fn |-> "uniq", in |-> tl] : tl \in Candidates} \cup
    {[fn |-> "norm_citations", in |-> cits] : cits \in CitationLists} \cup
    {[fn |-> "timeline_passes", in |-> [first |-> a, second |-> b]] :
        a \in {t \in Timelines : t.call = 1},
        b \in {t \in Timelines : t.call = 2}}

pipeline == <<jobStatus, sources, docs, queue, running, items, dispatched,
              eventBatches, redelivered, failures, calls>>

\* The probe once the helper function has been applied: its result recorded.
Applied(out) == [fn |-> probe.fn, in |-> probe.in, out |-> out]

IndexGate_Apply ==
    /\ probe.fn = "index_gate" /\ "out" \notin DOMAIN probe
    /\ probe' = Applied(IndexOutcome(probe.in))
    /\ UNCHANGED pipeline

Uniq_Apply ==
    /\ probe.fn = "uniq" /\ "out" \notin DOMAIN probe
    /\ probe' = Applied(Uniq(probe.in))
    /\ UNCHANGED pipeline

NormCitations_Apply ==
    /\ probe.fn = "norm_citations" /\ "out" \notin DOMAIN probe
    /\ probe' = Applied(NormCitations(probe.in))
    /\ UNCHANGED pipeline

TimelinePasses_Apply ==
    /\ probe.fn = "timeline_passes" /\ "out" \notin DOMAIN probe
    /\ probe' = Applied(TimelinePasses(probe.in.first, probe.in.second))
    /\ UNCHANGED pipeline

\* ---------------------------------------------------------- specifications

\* A handler starts: a worker takes its message and runs it to its first
\* commit or dispatch.
Begin(o) ==
    \/ RunDiscovery_Begin(o)
    \/ FetchSource_Begin(o)
    \/ Normalize_Begin(o)
    \/ Index_Begin(o)
    \/ AnalyzeTimeline_Begin(o)
    \/ FinalizeJob_Begin(o)

\* A handler in progress takes its next step.
Stage ==
    \/ RunDiscovery_Commit
    \/ RunDiscovery_SetFetching
    \/ RunDiscovery_Schedule
    \/ FetchSource_Commit
    \/ Normalize_Work
    \/ Normalize_Raise
    \/ Normalize_DispatchIndex
    \/ Index_Work
    \/ Index_Raise
    \/ AnalyzeTimeline_Synth
    \/ AnalyzeTimeline_Complete
    \/ AnalyzeTimeline_Failed
    \/ FinalizeJob_Reschedule
    \/ FinalizeJob_Dispatch

FanIn == FanIn_Check \/ FanIn_Dispatch

\* What the providers may return in the pipeline runs (SKIP_SITEMAPS and
\* SKIP_WORDPRESS default to "1": SearXNG alone is called).
PipelineAnswers == Answers({"searxng"}, Urls, MaxItems)

\* Workers run handlers concurrently; every message is delivered once.
Next ==
    \/ Begin(Concurrent)
    \/ RunDiscovery_Collect(PipelineAnswers)
    \/ Stage
    \/ FanIn

Spec == Init /\ [][Next]_vars

\* Task bodies run one at a time, in any order; every message is delivered once.
NextSeq ==
    \/ Begin(Sequential)
    \/ RunDiscovery_Collect(PipelineAnswers)
    \/ Stage
    \/ FanIn

SeqSpec == Init /\ [][NextSeq]_vars

\* Task bodies run one at a time; a message may be delivered again.  A
\* discovery pass returns at most one item here: a pass delivered twice adds
\* its Sources twice.
NextAtLeastOnce ==
    \/ Begin(AtLeastOnce)
    \/ RunDiscovery_Collect(Answers({"searxng"}, {"A"}, 1))
    \/ Stage
    \/ FanIn

AtLeastOnceSpec == Init /\ [][NextAtLeastOnce]_vars

\* run_discovery alone, over every list of items up to MaxDedupItems.
NextDiscovery ==
    \/ RunDiscovery_Begin(Sequential)
    \/ RunDiscovery_Collect(Answers(Providers, DedupUrls, MaxDedupItems))
    \/ RunDiscovery_Commit
    \/ RunDiscovery_SetFetching
    \/ RunDiscovery_Schedule

DiscoverySpec == Init /\ [][NextDiscovery]_vars

\* Every message in the broker is eventually taken by a worker and every
\* handler in progress eventually takes its next step.
Fairness ==
    /\ WF_vars(RunDiscovery_Begin(Concurrent))
    /\ WF_vars(FetchSource_Begin(Concurrent))
    /\ WF_vars(Normalize_Begin(Concurrent))
    /\ WF_vars(Index_Begin(Concurrent))
    /\ WF_vars(AnalyzeTimeline_Begin(Concurrent))
    /\ WF_vars(FinalizeJob_Begin(Concurrent))
    /\ WF_vars(RunDiscovery_Collect(PipelineAnswers))
    /\ WF_vars(RunDiscovery_Commit)
    /\ WF_vars(RunDiscovery_SetFetching)
    /\ WF_vars(RunDiscovery_Schedule)
    /\ WF_vars(FetchSource_Commit)
    /\ WF_vars(Normalize_Work \/ Normalize_Raise)
    /\ WF_vars(Normalize_DispatchIndex)
    /\ WF_vars(Index_Work \/ Index_Raise)
    /\ WF_vars(AnalyzeTimeline_Synth)
    /\ WF_vars(AnalyzeTimeline_Complete)
    /\ WF_vars(AnalyzeTimeline_Failed)
    /\ WF_vars(FinalizeJob_Reschedule)
    /\ WF_vars(FinalizeJob_Dispatch)
    /\ WF_vars(FanIn_Check \/ FanIn_Lost)
    /\ WF_vars(FanIn_Dispatch)

\* Concurrent workers, every message delivered once, every task eventually run.
FairSpec == Spec /\ Fairness

\* As FairSpec, and a worker may die just before a fan-in check.
NextLossy == Next \/ FanIn_Lost

LossySpec == Init /\ [][NextLossy]_vars /\ Fairness

\* The helper functions of index, analyze_timeline and make_timeline, each
\* applied once to arguments drawn from the bounded sets.
FunctionInit == PipelineStart /\ probe \in ProbeInputs

NextFunction ==
    \/ IndexGate_Apply
    \/ Uniq_Apply
    \/ NormCitations_Apply
    \/ TimelinePasses_Apply

FunctionSpec == FunctionInit /\ [][NextFunction]_vars

\* ------------------------------------------------------- reading the steps

AnalyzeTask == Task("analyze_timeline", 0)

\* Execution e takes the step.
Stepped(e) == CopiesIn(e, running') < CopiesIn(e, running)

\* Execution e moves to pc in the step.
MovesTo(e, pc) ==
    CopiesIn([e EXCEPT !.pc = pc], running') > CopiesIn([e EXCEPT !.pc = pc], running)

\* A worker takes message t in the step.
Started(t) ==
    \/ CopiesIn(t, queue') < CopiesIn(t, queue)
    \/ CopiesIn(t, redelivered') > CopiesIn(t, redelivered)

\* The step sends message t.
Sent(t) == CopiesIn(t, queue') > CopiesIn(t, queue)

TotalDispatched == dispatched.fanin + dispatched.finalize

\* ------------------------------------------------------------------ claims

\* The trigger condition as section 4.6 states it, over the committed rows.
TriggerCondition ==
    /\ \E d \in DOMAIN docs : docs[d].visible
    /\ \A d \in DOMAIN docs :
          docs[d].visible =>
              docs[d].status \in {"indexed", "index_failed", "normalize_failed"}
    /\ jobStatus \notin {"analyzing", "complete", "analysis_failed"}

\* C1: each evaluation of the fan-in check goes on to dispatch analyze_timeline
\* if and only if, in the state it evaluates, the job has a Document, no
\* Document is outside {indexed, index_failed, normalize_failed} and Job.status
\* is none of analyzing, complete, analysis_failed; a check that goes on sends
\* exactly one analyze_timeline message, and a check that does not sends none.
C1_FanInDispatchesIffTrigger ==
    [][\A e \in BagToSet(running) :
          /\ (e.pc = "fanin" /\ Stepped(e)) =>
                /\ MovesTo(e, "fanin_dispatch") <=> TriggerCondition
                /\ ~Sent(AnalyzeTask)
          /\ (e.pc = "fanin_dispatch" /\ Stepped(e)) =>
                /\ CopiesIn(AnalyzeTask, queue') = CopiesIn(AnalyzeTask, queue) + 1
                /\ dispatched'.fanin = dispatched.fanin + 1]_vars

\* C1 witness: a fan-in check has dispatched, and another handler stands at a
\* check that will not.
C1_Witness ==
    /\ dispatched.fanin >= 1
    /\ \E e \in BagToSet(running) : e.pc = "fanin" /\ ~TriggerCondition

\* C2: with task bodies run one at a time, analyze_timeline is dispatched at
\* most once per job, counting the fan-in check's and finalize_job's dispatches.
C2_AtMostOneDispatchSequential == TotalDispatched <= 1

TerminalJobStatuses == {"complete", "analysis_failed"}

\* run_discovery has returned and every fetch_source it sent has returned.
FetchingOver ==
    /\ ~BagIn(Task("run_discovery", 0), queue)
    /\ \A e \in BagToSet(running) : e.type \notin {"run_discovery", "fetch_source"}
    /\ \A sid \in DOMAIN sources : ~BagIn(Task("fetch_source", sid), queue)

\* Every Source of the job ended blocked_by_robots or fetch_failed and no
\* Document was created.
NoDocumentJob ==
    /\ FetchingOver
    /\ sources # <<>>
    /\ \A sid \in DOMAIN sources :
          sources[sid].status \in {"blocked_by_robots", "fetch_failed"}
    /\ docs = <<>>

\* C3: a job for which no Document is ever created eventually reaches
\* Job.status complete or analysis_failed (through finalize_job), every
\* enqueued task being eventually executed.
C3_NoDocumentJobTerminates == NoDocumentJob ~> (jobStatus \in TerminalJobStatuses)

\* C4: if the job has a Document and from some point on all its Documents are
\* terminal, the job eventually reaches complete or analysis_failed, also in
\* the runs where every fan-in check is lost.
C4_FinalizeAloneTerminates ==
    <>[](TotalDocs > 0 /\ PendingDocs = 0) => <>(jobStatus \in TerminalJobStatuses)

\* C4 witness: every Document is terminal, no fan-in check ever dispatched,
\* finalize_job did, and the job is complete.
C4_Witness ==
    /\ TotalDocs > 0 /\ PendingDocs = 0
    /\ dispatched = [fanin |-> 0, finalize |-> 1]
    /\ jobStatus = "complete"

\* The order of section 3: queued, discovering, fetching, analyzing, then
\* complete or analysis_failed.
StatusRank(st) ==
    CASE st = "queued" -> 0
      [] st = "discovering" -> 1
      [] st = "fetching" -> 2
      [] st = "analyzing" -> 3
      [] st \in {"complete", "analysis_failed"} -> 4

\* C5: every change of Job.status moves strictly forward in the order queued,
\* discovering, fetching, analyzing, then complete or analysis_failed: no write
\* of discovering or fetching over analyzing, complete or analysis_failed, and
\* analyzing never entered again.
C5_StatusOnlyAdvances ==
    [][jobStatus' # jobStatus => StatusRank(jobStatus') > StatusRank(jobStatus)]_vars

\* The step writes no Job, Source, Document or Event row.
RowsUnchanged == UNCHANGED <<jobStatus, sources, docs, eventBatches>>

\* The step sends no task message.
NothingSent == \A t \in BagToSet(queue') : CopiesIn(t, queue') <= CopiesIn(t, queue)

\* C6: executing normalize or index for a Document whose status is already
\* terminal leaves that Document's status and every other persisted row
\* unchanged and dispatches no task.
C6_TerminalRedeliveryIsNoOp ==
    [][/\ \A d \in DOMAIN docs :
             (/\ docs[d].visible
              /\ docs[d].status \in TerminalDocStatuses
              /\ Started(Task("normalize", d)) \/ Started(Task("index", d)))
                 => RowsUnchanged /\ NothingSent
       /\ \A e \in BagToSet(running) :
             (e.redo /\ Stepped(e)) => RowsUnchanged /\ NothingSent]_vars

\* C7: with every task executed once, a Document that is indexed, index_failed
\* or normalize_failed never changes status again, and no normalize or index
\* task is sent for it afterwards.
C7_TerminalDocumentStays ==
    [][\A d \in DOMAIN docs :
          docs[d].status \in {"indexed", "index_failed", "normalize_failed"} =>
              /\ docs'[d].status = docs[d].status
              /\ ~Sent(Task("normalize", d))
              /\ ~Sent(Task("index", d))]_vars

\* C7 witness: one Document ended normalize_failed, another indexed, every
\* handler has returned and the job is complete.
C7_Witness ==
    /\ Len(docs) = 2
    /\ docs[1].status = "normalize_failed"
    /\ docs[2].status = "indexed"
    /\ running = EmptyBag
    /\ jobStatus = "complete"

\* The place of the first item with the URL in the collected items.
FirstSeen(url) ==
    CHOOSE k \in DOMAIN items :
        items[k].url = url /\ \A j \in 1..(k - 1) : items[j].url # url

\* C8: once a run_discovery pass has stored its items, the Sources it persisted
\* are one per distinct URL of the collected list (exact match), each queued
\* and with the provider of the first item seen with that URL, in first-seen
\* order.
C8_OneSourcePerUrlFirstSeen ==
    (\E e \in BagToSet(running) :
        e.type = "run_discovery" /\ e.pc \in {"commit", "set_fetching", "schedule"})
    =>
    /\ \A i, j \in DOMAIN sources : i # j => sources[i].url # sources[j].url
    /\ {sources[i].url : i \in DOMAIN sources} = {items[k].url : k \in DOMAIN items}
    /\ \A i \in DOMAIN sources :
          /\ sources[i].source = items[FirstSeen(sources[i].url)].source
          /\ sources[i].status = "queued"
    /\ \A i, j \in DOMAIN sources :
          i < j => FirstSeen(sources[i].url) < FirstSeen(sources[j].url)

\* C8 witness: "A", "a", "A" collected, the two "A" items from different
\* providers; two Sources are committed.
C8_Witness ==
    /\ BagIn(Exec("run_discovery", 0, "set_fetching"), running)
    /\ Len(items) = 3
    /\ items[1].url = "A" /\ items[2].url = "a" /\ items[3].url = "A"
    /\ items[1].source # items[3].source
    /\ Len(sources) = 2
    /\ \A i \in DOMAIN sources : sources[i].visible

\* C9: a fan-in check that passes writes nothing, so the trigger condition
\* still holds in the state it leaves and a second handler's check passes too;
\* and a handler that has passed dispatches without looking again.
C9_PassedCheckLeavesGuardOpen ==
    [][\A e \in BagToSet(running) :
          /\ (e.pc = "fanin" /\ Stepped(e) /\ MovesTo(e, "fanin_dispatch")) =>
                /\ RowsUnchanged
                /\ TriggerCondition'
          /\ (e.pc = "fanin_dispatch" /\ Stepped(e)) =>
                /\ RowsUnchanged
                /\ Sent(AnalyzeTask)]_vars

\* C9 witness: both Documents are indexed, two fan-in checks have dispatched
\* analyze_timeline, both messages are still in the broker and Job.status is
\* not yet analyzing.
C9_Witness ==
    /\ Len(docs) = 2
    /\ \A d \in DOMAIN docs : docs[d].status = "indexed"
    /\ dispatched = [fanin |-> 2, finalize |-> 0]
    /\ CopiesIn(AnalyzeTask, queue) = 2
    /\ jobStatus \notin GuardStatuses

\* fetch_source for Source sid returns in the step.
FetchReturns(sid) ==
    /\ \/ Started(Task("fetch_source", sid))
       \/ \E e \in BagToSet(running) :
             e.type = "fetch_source" /\ e.id = sid /\ Stepped(e)
    /\ \A e \in BagToSet(running') : ~(e.type = "fetch_source" /\ e.id = sid)

\* C10: every execution of fetch_source that ends without having created a
\* Document ends in the fan-in check (the check's session or its dispatch).
C10_FetchWithoutDocumentChecksFanIn ==
    [][\A sid \in DOMAIN sources :
          (/\ FetchReturns(sid)
           /\ Len(docs') = Len(docs)
           /\ \A e \in BagToSet(running) :
                 (e.type = "fetch_source" /\ e.id = sid) => e.doc = 0)
             => \E e \in BagToSet(running) :
                   /\ e.type = "fetch_source" /\ e.id = sid
                   /\ e.pc \in {"fanin", "fanin_dispatch"}
                   /\ Stepped(e)]_vars

\* C11: every execution of index for an existing Document ends by writing the
\* Document a terminal status and then invoking the fan-in check, on every
\* path: the step that ends index's work leaves the Document indexed or
\* index_failed and the handler at the fan-in check.
C11_IndexEndsInStatusThenFanIn ==
    [][\A e \in BagToSet(running) :
          (e.type = "index" /\ e.pc = "work" /\ Stepped(e)) =>
              /\ docs'[e.id].status \in {"indexed", "index_failed"}
              /\ MovesTo(e, "fanin")]_vars

\* An index task for Document d is in the broker, being executed, or about to
\* be sent by normalize.
IndexPending(d) ==
    \/ BagIn(Task("index", d), queue)
    \/ \E e \in BagToSet(running) :
          /\ e.id = d
          /\ \/ e.type = "index"
             \/ e.type = "normalize" /\ e.pc = "dispatch_index"

\* C12: a failure of the embedding call or of the vector-store upsert leaves
\* the Document index_failed, never normalized: no Document stays normalized
\* once no index task is left for it.
C12_EmbeddingFailureEndsIndexFailed ==
    \A d \in DOMAIN docs : docs[d].status = "normalized" => IndexPending(d)

\* C13: when a step of analyze_timeline raises (building, parsing or
\* persisting the timeline), that attempt commits no Event, the except block
\* writes Job.status analysis_failed as the handler's last act, and the task
\* does not end by an exception.
C13_SynthesisFailureIsAllOrNothing ==
    [][\A e \in BagToSet(running) :
          (e.type = "analyze_timeline" /\ Stepped(e)) =>
              /\ failures' = failures
              /\ (e.pc = "synth" /\ MovesTo(e, "failed")) =>
                    /\ eventBatches' = eventBatches
                    /\ jobStatus' = jobStatus
              /\ e.pc = "failed" =>
                    /\ jobStatus' = "analysis_failed"
                    /\ eventBatches' = eventBatches
                    /\ BagCardinality(running') = BagCardinality(running) - 1]_vars

\* C13 witness: the one synthesis attempt of the job raised: the job is
\* analysis_failed, no Event batch is stored and no task ended by an exception.
C13_Witness ==
    /\ jobStatus = "analysis_failed"
    /\ TotalDispatched = 1
    /\ eventBatches = 0
    /\ failures = 0
    /\ running = EmptyBag

\* C14: once Job.status is complete or analysis_failed no step changes it and
\* no execution of analyze_timeline starts.
C14_TerminalJobStatusIsFinal ==
    [][(jobStatus = "complete" \/ jobStatus = "analysis_failed") =>
          /\ jobStatus' = jobStatus
          /\ ~Started(AnalyzeTask)]_vars

FinalizeTask == Task("finalize_job", 0)

\* The job has at least one Document and none is pending.
DocumentsAllTerminal ==
    /\ \E d \in DOMAIN docs : docs[d].visible
    /\ \A d \in DOMAIN docs :
          docs[d].visible =>
              docs[d].status \in {"indexed", "index_failed", "normalize_failed"}

\* C15: a firing of finalize_job does exactly one of three things.  With
\* Job.status analyzing, complete or analysis_failed it ends at once, nothing
\* changed and nothing sent.  Otherwise, with a Document and none pending, it
\* sends one analyze_timeline and no finalize_job.  Otherwise it sends one
\* finalize_job and no analyze_timeline.
C15_FinalizeDoesExactlyOne ==
    [][/\ Started(FinalizeTask) =>
             /\ RowsUnchanged
             /\ NothingSent
             /\ running' =
                   IF jobStatus \in {"analyzing", "complete", "analysis_failed"}
                       THEN running
                   ELSE IF DocumentsAllTerminal
                       THEN Put(running, Exec("finalize_job", 0, "dispatch"))
                   ELSE Put(running, Exec("finalize_job", 0, "reschedule"))
       /\ \A e \in BagToSet(running) :
             (e.type = "finalize_job" /\ Stepped(e)) =>
                 /\ RowsUnchanged
                 /\ running' = Del(running, e)
                 /\ e.pc = "dispatch" => queue' = Put(queue, AnalyzeTask)
                 /\ e.pc = "reschedule" => queue' = Put(queue, FinalizeTask)]_vars

\* C15 witness: finalize_job found both Documents terminal before any fan-in
\* check dispatched, and is about to dispatch.
C15_Witness ==
    /\ BagIn(Exec("finalize_job", 0, "dispatch"), running)
    /\ Len(docs) = 2
    /\ dispatched = [fanin |-> 0, finalize |-> 0]

\* The step is one of finalize_job.
FinalizeSteps ==
    \/ Started(FinalizeTask)
    \/ \E e \in BagToSet(running) : e.type = "finalize_job" /\ Stepped(e)

\* The step is one of the fan-in check.
FanInSteps ==
    \E e \in BagToSet(running) : e.pc \in {"fanin", "fanin_dispatch"} /\ Stepped(e)

\* C16: finalize_job and the fan-in check write no Job, Source, Document or
\* Event row and send no fetch_source, normalize or index: the fan-in check
\* sends analyze_timeline or nothing, finalize_job analyze_timeline,
\* finalize_job or nothing.
C16_DecisionStepsOnlyDispatch ==
    [][/\ FinalizeSteps =>
             /\ RowsUnchanged
             /\ \A t \in BagToSet(queue') :
                   Sent(t) => t \in {AnalyzeTask, FinalizeTask}
       /\ FanInSteps =>
             /\ RowsUnchanged
             /\ \A t \in BagToSet(queue') : Sent(t) => t = AnalyzeTask]_vars

\* C16 witness: a fan-in check and finalize_job have each dispatched
\* analyze_timeline, over two Documents.
C16_Witness ==
    /\ dispatched.fanin >= 1
    /\ dispatched.finalize >= 1
    /\ Len(docs) = 2

\* Message t, delivered before and kept by the broker, is delivered again.
DeliveredAgain(t) ==
    /\ BagIn(t, redelivered)
    /\ redelivered' = redelivered
    /\ Started(t)

\* C17: under at-least-once delivery, a second execution of run_discovery,
\* fetch_source or analyze_timeline, started after the first has completed,
\* creates no Source, Document or Event row and changes no Job, Source or
\* Document status; stated here for the step that starts the second execution.
C17_SecondExecutionChangesNothing ==
    [][\A t \in BagToSet(redelivered) :
          (/\ t.type \in {"run_discovery", "fetch_source", "analyze_timeline"}
           /\ DeliveredAgain(t))
             => RowsUnchanged]_vars

\* C18: a normalize task for a Document is sent only in the step of
\* fetch_source that creates the Document, and an index task is sent only by an
\* execution of normalize for that Document, the Document being normalized:
\* never for a Document whose normalize failed.
C18_StagesDispatchedInOrder ==
    [][\A d \in DOMAIN docs' :
          /\ Sent(Task("normalize", d)) =>
                /\ d \notin DOMAIN docs
                /\ Started(Task("fetch_source", docs'[d].source_id))
          /\ Sent(Task("index", d)) =>
                /\ d \in DOMAIN docs
                /\ docs[d].status = "normalized"
                /\ \E e \in BagToSet(running) :
                      e.type = "normalize" /\ e.id = d /\ Stepped(e)]_vars

\* C18 witness: the first Document's normalize failed and no index task exists
\* for it; the second is normalized and its index task is in the broker.
C18_Witness ==
    /\ Len(docs) = 2
    /\ docs[1].status = "normalize_failed"
    /\ ~IndexPending(1)
    /\ docs[2].status = "normalized"
    /\ BagIn(Task("index", 2), queue)

\* C19: an execution of fetch_source that finds the URL disallowed or whose
\* retrieval fails (the two exits that lead to the fan-in check) leaves
\* Source.status blocked_by_robots or fetch_failed, creates no Document and
\* sends no normalize task.
C19_RefusedFetchMarksSource ==
    [][\A sid \in DOMAIN sources :
          (/\ Started(Task("fetch_source", sid))
           /\ MovesTo(Exec("fetch_source", sid, "fanin"), "fanin"))
             => /\ sources'[sid].status \in {"blocked_by_robots", "fetch_failed"}
                /\ docs' = docs
                /\ NothingSent]_vars

\* C20: an execution of normalize for an existing Document first sets it
\* normalizing, then ends in exactly one of two ways.  Extraction succeeded:
\* the Document is normalized with text_path set, one index task is sent and
\* the handler returns without a fan-in check.  Extraction failed: the Document
\* is normalize_failed, no index task is sent and the handler goes to the
\* fan-in check.
C20_NormalizeTwoOutcomes ==
    [][/\ \A d \in DOMAIN docs :
             (Started(Task("normalize", d)) /\ docs[d].visible) =>
                 /\ docs'[d].status = "normalizing"
                 /\ NothingSent
                 /\ MovesTo(Exec("normalize", d, "work"), "work")
       /\ \A e \in BagToSet(running) :
             (e.type = "normalize" /\ Stepped(e)) =>
                 /\ e.pc = "work" =>
                       /\ NothingSent
                       /\ \/ /\ docs'[e.id].status = "normalized"
                             /\ docs'[e.id].text_path
                             /\ MovesTo(e, "dispatch_index")
                          \/ /\ docs'[e.id].status = "normalize_failed"
                             /\ docs'[e.id].text_path = docs[e.id].text_path
                             /\ MovesTo(e, "fanin")
                 /\ e.pc = "dispatch_index" =>
                       /\ queue' = Put(queue, Task("index", e.id))
                       /\ running' = Del(running, e)
                       /\ docs' = docs]_vars

\* The URLs of the items returned by the providers whose call did not raise.
SucceededUrls(c) ==
    UNION {{c[q].items[k].url : k \in DOMAIN c[q].items} :
              q \in {r \in DOMAIN c : ~c[r].raised}}

\* The Sources the step adds.
NewSources == DOMAIN sources' \ DOMAIN sources

DiscoveryRunning ==
    \E e \in BagToSet(running) : e.type = "run_discovery"

\* C21: whichever providers raise, all of them included, run_discovery goes
\* on to its end: no step of it ends the task by an exception, the Sources it
\* stores are those of the items of the providers that did not raise, it then
\* writes Job.status fetching and schedules finalize_job, each step of the
\* handler leading to the next.
C21_ProviderFailuresAreSwallowed ==
    [][\A e \in BagToSet(running) :
             (e.type = "run_discovery" /\ Stepped(e)) =>
                 /\ failures' = failures
                 /\ e.pc = "collect" =>
                       /\ {sources'[i].url : i \in NewSources} = SucceededUrls(calls')
                       /\ MovesTo(e, "commit")
                 /\ e.pc = "commit" => MovesTo(e, "set_fetching")
                 /\ e.pc = "set_fetching" =>
                       /\ jobStatus' = "fetching"
                       /\ MovesTo(e, "schedule")
                 /\ e.pc = "schedule" =>
                       /\ jobStatus = "fetching"
                       /\ Sent(FinalizeTask)
                       /\ ~DiscoveryRunning']_vars

\* C21 witness: SearXNG raised, the sitemap provider returned items; their
\* Sources are stored, the job is fetching and finalize_job is about to be
\* scheduled.
C21_Witness ==
    /\ BagIn(Exec("run_discovery", 0, "schedule"), running)
    /\ calls["searxng"].raised
    /\ calls["sitemap"].items # <<>>
    /\ sources # <<>>
    /\ jobStatus = "fetching"

\* C28: one execution of run_discovery writes discovering before any provider
\* is called; stores every unique item as a queued Source and sends exactly one
\* fetch_source per stored Source and nothing else; writes fetching only when
\* every fetch_source has been sent; then sends exactly one finalize_job.
C28_DiscoveryOrder ==
    [][/\ Started(Task("run_discovery", 0)) =>
             /\ calls = NoCalls /\ calls' = NoCalls
             /\ jobStatus' = "discovering"
             /\ sources' = sources
             /\ NothingSent
       /\ \A e \in BagToSet(running) :
             (e.type = "run_discovery" /\ Stepped(e)) =>
                 /\ e.pc = "collect" =>
                       /\ jobStatus = "discovering" /\ jobStatus' = "discovering"
                       /\ Cardinality(NewSources) =
                             Cardinality({items'[k].url : k \in DOMAIN items'})
                       /\ {sources'[i].url : i \in NewSources} =
                             {items'[k].url : k \in DOMAIN items'}
                       /\ \A i \in NewSources :
                             /\ sources'[i].status = "queued"
                             /\ CopiesIn(Task("fetch_source", i), queue') =
                                   CopiesIn(Task("fetch_source", i), queue) + 1
                       /\ \A t \in BagToSet(queue') :
                             Sent(t) => t.type = "fetch_source" /\ t.id \in NewSources
                 /\ e.pc = "commit" => jobStatus' = "discovering" /\ NothingSent
                 /\ e.pc = "set_fetching" =>
                       /\ jobStatus' = "fetching"
                       /\ NothingSent
                       /\ \A i \in DOMAIN sources :
                             BagIn(Task("fetch_source", i), queue)
                 /\ e.pc = "schedule" =>
                       /\ jobStatus = "fetching"
                       /\ queue' = Put(queue, FinalizeTask)]_vars

\* C28 witness: three items over two URLs were collected; two Sources are
\* stored, their two fetch_source messages sent, the job has just been set
\* fetching and finalize_job is not yet scheduled.
C28_Witness ==
    /\ BagIn(Exec("run_discovery", 0, "schedule"), running)
    /\ Len(items) = 3
    /\ Len(sources) = 2
    /\ queue = SetToBag({Task("fetch_source", 1), Task("fetch_source", 2)})
    /\ jobStatus = "fetching"

\* Helper function fn has been applied to the arguments drawn.
Probed(fn) == probe.fn = fn /\ "out" \in DOMAIN probe

EventPair(e) == <<e.date, Lower(e.event)>>

\* The candidates with a non-empty event text that are the first of their
\* pair, in their order.
FirstOfPairs(tl) ==
    LET keep(k) == /\ tl[k].event # <<>>
                   /\ \A j \in 1..(k - 1) : EventPair(tl[j]) # EventPair(tl[k])
        F[k \in 0..Len(tl)] ==
            IF k = 0 THEN <<>>
            ELSE IF keep(k) THEN Append(F[k - 1], tl[k]) ELSE F[k - 1]
    IN F[Len(tl)]

\* C23: among the Events one analyze_timeline pass persists no two have the
\* same pair (date, lower-cased event text); the persisted Events are the
\* candidates with a non-empty event text that are the first of their pair,
\* in the candidates' order.
C23_EventsUniquePerPair ==
    Probed("uniq") =>
        /\ \A i, j \in DOMAIN probe.out :
              i # j => EventPair(probe.out[i]) # EventPair(probe.out[j])
        /\ probe.out = FirstOfPairs(probe.in)

\* C23 witness: "Pn" and "pn" with the same date, an empty event text between
\* them: one Event persisted, the first.
C23_Witness ==
    /\ Probed("uniq")
    /\ probe.in = <<[date |-> <<"1">>, event |-> <<"P", "n">>],
                    [date |-> <<"1">>, event |-> <<>>],
                    [date |-> <<"1">>, event |-> <<"p", "n">>]>>
    /\ probe.out = <<[date |-> <<"1">>, event |-> <<"P", "n">>]>>

\* The normalization as stated: a bare string is the url, labelled "source";
\* an object keeps its url and its label, "source" when the label is missing
\* or empty; an entry with an empty or missing url, or of another shape, is
\* dropped.
RECURSIVE StatedCitations(_)
StatedCitations(cits) ==
    IF cits = <<>> THEN <<>>
    ELSE LET c == Head(cits)
             rest == StatedCitations(Tail(cits))
         IN CASE c.kind = "str" ->
                    IF c.s = "" THEN rest
                    ELSE <<[url |-> c.s, label |-> "source"]>> \o rest
              [] c.kind = "dict" ->
                    IF "url" \notin DOMAIN c.d \/ c.d["url"] = "" THEN rest
                    ELSE <<[url |-> c.d["url"],
                            label |-> IF "label" \in DOMAIN c.d /\ c.d["label"] # ""
                                          THEN c.d["label"] ELSE "source"]>> \o rest
              [] OTHER -> rest

\* C24: make_timeline's citation normalization maps every list of entries as
\* stated: bare string to {url, "source"}, object keeping url and label with
\* "source" for a missing or empty label, entries with an empty or missing
\* url and entries of other shapes dropped, order preserved.
C24_CitationNormalization ==
    Probed("norm_citations") => probe.out = StatedCitations(probe.in)

\* C27: one analyze_timeline pass calls make_timeline once or twice, twice
\* exactly when the first call returned fewer than 8 events; the list it goes
\* on with is then the second call's result, whatever its length, and the
\* first call's otherwise.
C27_AtMostOneRetry ==
    Probed("timeline_passes") =>
        /\ probe.out.calls \in {1, 2}
        /\ probe.out.calls = 2 <=> probe.in.first.len < 8
        /\ probe.out.tl = IF probe.in.first.len < 8
                              THEN probe.in.second ELSE probe.in.first

\* C27 witness: the first call returned 7 events, the second none: the pass
\* goes on with the empty second result.
C27_Witness ==
    /\ Probed("timeline_passes")
    /\ probe.in.first.len = 7
    /\ probe.in.second.len = 0
    /\ probe.out = [calls |-> 2, tl |-> [call |-> 2, len |-> 0]]

\* C25: whenever analyze_timeline is dispatched, no Source of the job is still
\* queued and every Document of the job is terminal.
C25_DispatchOnlyWhenAllWorkDone ==
    [][Sent(AnalyzeTask) =>
          /\ \A sid \in DOMAIN sources : sources[sid].status # "queued"
          /\ \A d \in DOMAIN docs :
                docs[d].status \in {"indexed", "index_failed", "normalize_failed"}]_vars

\* C26: the job's Events are written in a single batch by one execution of
\* analyze_timeline, and no batch is added once Job.status is complete.
C26_OneEventBatch ==
    [][/\ eventBatches' <= 1
       /\ jobStatus = "complete" => eventBatches' = eventBatches]_vars

\* The normalize task sent for Document d started before the fetch_source
\* session that created d had committed: the message is consumed, the row
\* still uncommitted.
RacedNormalize(d) ==
    /\ d \in DOMAIN docs
    /\ ~docs[d].visible
    /\ ~BagIn(Task("normalize", d), queue)

\* C29: a Document whose normalize task started before the fetch_source
\* transaction committed the row still reaches indexed, index_failed or
\* normalize_failed, every enqueued task being eventually executed.
C29_RacedDocumentTerminates ==
    \A d \in 1..MaxItems :
        RacedNormalize(d) ~>
            (/\ d \in DOMAIN docs
             /\ docs[d].status \in {"indexed", "index_failed", "normalize_failed"})

\* C30: every Source run_discovery stored eventually leaves queued, every
\* enqueued task being eventually executed, also when its fetch_source starts
\* before run_discovery's transaction has committed the row.
C30_SourceLeavesQueued ==
    \A sid \in 1..MaxItems :
        (sid \in DOMAIN sources) ~>
            (sid \in DOMAIN sources /\ sources[sid].status # "queued")

\* C31: while Job.status is analyzing, complete or analysis_failed, no committed
\* Document of the job is fetched, normalizing or normalized.
C31_NoPendingDocumentOnceAnalyzing ==
    jobStatus \in {"analyzing", "complete", "analysis_failed"} =>
        \A d \in DOMAIN docs :
            docs[d].visible =>
                docs[d].status \notin {"fetched", "normalizing", "normalized"}

\* The committed Documents of Source sid.
DocumentsOf(sid) ==
    {d \in DOMAIN docs : docs[d].visible /\ docs[d].source_id = sid}

\* C32: every fetch_source task being executed once, a Source has a Document
\* exactly when its status is fetched; it then has one Document, with the
\* job_id of the Source; a Source that is queued, blocked_by_robots or
\* fetch_failed has none.
C32_DocumentIffSourceFetched ==
    \A sid \in DOMAIN sources :
        /\ DocumentsOf(sid) # {} <=> sources[sid].status = "fetched"
        /\ sources[sid].status = "fetched" =>
              /\ Cardinality(DocumentsOf(sid)) = 1
              /\ \A d \in DocumentsOf(sid) : docs[d].job_id = sources[sid].job_id
        /\ sources[sid].status \in {"queued", "blocked_by_robots", "fetch_failed"} =>
              DocumentsOf(sid) = {}

\* C32 witness: of two Sources one is fetched and has its Document, the other
\* failed to fetch and has none.
C32_Witness ==
    /\ Len(sources) = 2
    /\ sources[1].status = "fetched"
    /\ Cardinality(DocumentsOf(1)) = 1
    /\ sources[2].status = "fetch_failed"
    /\ DocumentsOf(2) = {}

\* What can still enqueue a finalize_job, counted with the finalize_job messages
\* in the broker: run_discovery not yet at its end (its message, or its
\* execution before the apply_async of its last line) and a finalize_job
\* execution on its re-enqueue branch.
FinalizeChain ==
    CopiesIn(Task("run_discovery", 0), queue)
    + CopiesIn(Exec("run_discovery", 0, "collect"), running)
    + CopiesIn(Exec("run_discovery", 0, "commit"), running)
    + CopiesIn(Exec("run_discovery", 0, "set_fetching"), running)
    + CopiesIn(Exec("run_discovery", 0, "schedule"), running)
    + CopiesIn(FinalizeTask, queue)
    + CopiesIn(Exec("finalize_job", 0, "reschedule"), running)

\* C33: run_discovery being executed once, at most one finalize_job message is
\* in the broker at any time; a step enqueues finalize_job only as the one
\* thing that could still do so (the count never grows); and a finalize_job
\* execution that finds Job.status analyzing, complete or analysis_failed, or
\* goes on to dispatch analyze_timeline, leaves nothing that could enqueue
\* finalize_job again.
C33_OneFinalizeChain ==
    [][/\ CopiesIn(FinalizeTask, queue') <= 1
       /\ FinalizeChain' <= FinalizeChain
       /\ Sent(FinalizeTask) => FinalizeChain > 0
       /\ (Started(FinalizeTask) /\ FinalizeDecision # "reschedule") =>
             FinalizeChain' = 0]_vars

\* C33 witness: finalize_job has dispatched the synthesis over two Documents
\* and nothing is left to enqueue it again.
C33_Witness ==
    /\ dispatched.finalize = 1
    /\ Len(docs) = 2
    /\ FinalizeChain = 0

====
